---- MODULE Spec2Model ----
(***************************************************************************)
(* A model of asylo::StatusOr<T> (asylo/util/statusor.h).                  *)
(*                                                                         *)
(* A StatusOr<T> object is a union `variant_` of a Status member `status_` *)
(* and a T member `value_`, plus the discriminant `has_value_`.  The two   *)
(* union members are modelled separately, each either holding a            *)
(* constructed object or NoObj (no object constructed in the storage), so  *)
(* that "both live", "neither live", a destruction of a member that holds  *)
(* no object and a construction over a live member are all expressible.    *)
(*                                                                         *)
(* The program is single-threaded; every member function is one action.    *)
(* Constructors of T and of Status are assumed not to throw.               *)
(***************************************************************************)
EXTENDS Integers, FiniteSets, Sequences, TLC

(***************************************************************************)
(* Bounds.                                                                 *)
(***************************************************************************)
NumObjs == 3
MaxVal == 2

\* Storage locations in which a StatusOr<T> object can be constructed.
Ids == 1..NumObjs

\* The values of T.
TVals == 1..MaxVal

\* The state a T that is not trivially movable is left in by T(T &&): valid,
\* and equal to no value a caller constructs.
MovedT == MaxVal + 1

\* A union member's storage: no object constructed in it, or the object x.
NoObj == <<>>

Obj(x) == <<x>>

Get(cell) == cell[1]

(***************************************************************************)
(* Status: an error code in an error space, a message, and ok().           *)
(***************************************************************************)
MkStatus(space, code, msg) == [space |-> space, code |-> code, msg |-> msg]

OkStatus == MkStatus("GoogleError", "OK", "")

UnknownStatus == MkStatus("GoogleError", "UNKNOWN", "Unknown error")

MovedStatus == MkStatus("StatusError", "INVALID", "The object was moved")

\* A failure a caller reports.
UserStatus == MkStatus("GoogleError", "NOT_FOUND", "not found")

\* Every Status a caller can hand to StatusOr(const Status &).
Statuses == {OkStatus, UnknownStatus, MovedStatus, UserStatus}

StatusOk(s) == s.code = "OK"

\* What Status(Status &&) / operator=(Status &&) may leave in the source:
\* unchanged, or with its message taken.
MovedFromStatus(s) == {s, [s EXCEPT !.msg = ""]}

\* What T(T &&) may leave in the source: unchanged (trivial T) or emptied.
MovedFromT(v) == {v, MovedT}

VARIABLES
  alive,       \* alive[c]: a StatusOr object's lifetime is running in c
  has_value_,  \* has_value_[c]
  value_,      \* variant_.value_ of c, or NoObj
  status_,     \* variant_.status_ of c, or NoObj
  err,         \* object-lifetime errors committed so far
  aborted,     \* LOG(FATAL) was reached
  lastOp,      \* the member function that ran last, with its operands
  ret,         \* what it returned
  prev,        \* the objects as they were before it ran
  copied,      \* the last copy made, while its source has not been written
  moveOnlyT,   \* T is a move-only type, like std::unique_ptr<>
  minted,      \* for a move-only T: the values given to StatusOr(T &&) so far
  taken,       \* for a move-only T: the values ValueOrDie() && handed out
  events       \* what the last call did to the members of variant_ and, in
               \* AssignStatus and AssignValue, to has_value_, in order

vars ==
  <<alive, has_value_, value_, status_, err, aborted, lastOp, ret, prev,
    copied, moveOnlyT, minted, taken, events>>

\* The storage of all objects, as the helpers below transform it.
Mem ==
  [has_value_ |-> has_value_, value_ |-> value_, status_ |-> status_,
   err |-> err, ev |-> <<>>]

Snapshot == [alive |-> alive, has_value_ |-> has_value_, value_ |-> value_,
             status_ |-> status_, copied |-> copied]

\* What an operation returned: nothing, or Obj(x).
NoRet == <<>>

(***************************************************************************)
(* The primitive operations on the members of variant_.                    *)
(***************************************************************************)
\* variant_.value_.~T()
DestroyValue(m, c) ==
  [m EXCEPT !.value_[c] = NoObj,
            !.err = IF m.value_[c] = NoObj THEN @ \cup {"destroy_dead"} ELSE @,
            !.ev = Append(@, <<"~T", c>>)]

\* variant_.status_.~Status()
DestroyStatus(m, c) ==
  [m EXCEPT !.status_[c] = NoObj,
            !.err = IF m.status_[c] = NoObj THEN @ \cup {"destroy_dead"} ELSE @,
            !.ev = Append(@, <<"~Status", c>>)]

\* A member is still constructed in the storage that is about to be reused.
Overwrites(m, c) == m.value_[c] # NoObj \/ m.status_[c] # NoObj

\* new (&variant_) variant(value): variant(const T &) / variant(T &&)
ConstructValue(m, c, v) ==
  [m EXCEPT !.value_[c] = Obj(v),
            !.err = IF Overwrites(m, c) THEN @ \cup {"leak"} ELSE @,
            !.ev = Append(@, <<"new T", c>>)]

\* new (&variant_) variant(status): variant(const Status &) / variant(Status &&)
ConstructStatus(m, c, s) ==
  [m EXCEPT !.status_[c] = Obj(s),
            !.err = IF Overwrites(m, c) THEN @ \cup {"leak"} ELSE @,
            !.ev = Append(@, <<"new Status", c>>)]

\* variant_.status_ = status
StoreStatus(m, c, s) ==
  [m EXCEPT !.status_[c] = Obj(s),
            !.err = IF m.status_[c] = NoObj THEN @ \cup {"use_dead"} ELSE @,
            !.ev = Append(@, <<"Status =", c>>)]

\* Reading other.variant_.value_: the object, or anything if there is none.
ReadValue(m, c) ==
  IF m.value_[c] = NoObj THEN TVals ELSE {Get(m.value_[c])}

\* Reading other.variant_.status_: the object, or anything if there is none.
ReadStatus(m, c) ==
  IF m.status_[c] = NoObj THEN Statuses ELSE {Get(m.status_[c])}

\* Reading a member that holds no object is an error.
ReadErr(m, c, member) ==
  [m EXCEPT !.err = IF member[c] = NoObj THEN @ \cup {"use_dead"} ELSE @]

\* has_value_ = b
SetHasValue(m, c, b) ==
  [m EXCEPT !.has_value_[c] = b, !.ev = Append(@, <<"has_value_ =", c>>)]

\* Reading the member of other that other.has_value_ names.
ReadActive(m, c) ==
  IF m.has_value_[c] THEN ReadValue(m, c) ELSE ReadStatus(m, c)

\* The states std::move leaves the member x was read from in.
MovedFrom(m, c, x) ==
  IF m.has_value_[c] THEN MovedFromT(x) ELSE MovedFromStatus(x)

\* The source of a move, left in one of its moved-from states.
LeaveValue(m, c, r) == [m EXCEPT !.value_[c] = Obj(r)]

LeaveStatus(m, c, r) == [m EXCEPT !.status_[c] = Obj(r)]

(***************************************************************************)
(* The private helpers of StatusOr.                                        *)
(***************************************************************************)
\* bool ok() const
Ok(m, c) == m.has_value_[c]

\* AssignStatus that destroys whichever member is active and constructs the
\* Status anew.
AssignStatusAlwaysRebuilds(m, c, s) ==
  LET m1 == IF Ok(m, c) THEN DestroyValue(m, c) ELSE DestroyStatus(m, c)
      m2 == ConstructStatus(m1, c, s)
  IN SetHasValue(m2, c, FALSE)

\* AssignStatus without its last line, has_value_ = false.
AssignStatusKeepsFlag(m, c, s) ==
  IF Ok(m, c)
    THEN ConstructStatus(DestroyValue(m, c), c, s)
    ELSE StoreStatus(m, c, s)

\* template <class U> void AssignStatus(U &&status)
AssignStatus(m, c, s) ==
  LET m1 == IF Ok(m, c)
            THEN ConstructStatus(DestroyValue(m, c), c, s)
            ELSE StoreStatus(m, c, s)
  IN SetHasValue(m1, c, FALSE)

\* AssignValue in the shape of AssignStatus: a T already there is assigned to.
AssignValueInPlace(m, c, v) ==
  LET m1 == IF Ok(m, c)
            THEN [m EXCEPT !.value_[c] = Obj(v),
                           !.ev = Append(@, <<"T =", c>>)]
            ELSE ConstructValue(DestroyStatus(m, c), c, v)
  IN SetHasValue(m1, c, TRUE)

\* AssignValue that destroys the old payload only when it is a T.
AssignValueLeaks(m, c, v) ==
  LET m1 == IF Ok(m, c) THEN DestroyValue(m, c) ELSE m
      m2 == ConstructValue(m1, c, v)
  IN SetHasValue(m2, c, TRUE)

\* template <class U> void AssignValue(U &&value)
AssignValue(m, c, v) ==
  LET m1 == IF Ok(m, c) THEN DestroyValue(m, c) ELSE DestroyStatus(m, c)
      m2 == ConstructValue(m1, c, v)
  IN SetHasValue(m2, c, TRUE)

\* Clear() that leaves an object that has a value as it is.
ClearOnlyFailures(m, c) ==
  IF Ok(m, c) THEN m ELSE AssignStatus(m, c, MovedStatus)

\* void Clear()
Clear(m, c) == AssignStatus(m, c, MovedStatus)

(***************************************************************************)
(* The state after an operation.                                           *)
(***************************************************************************)
Commit(m) ==
  /\ has_value_' = m.has_value_
  /\ value_' = m.value_
  /\ status_' = m.status_
  /\ err' = m.err
  /\ events' = m.ev

Op(kind, c, o, arg) == [kind |-> kind, this |-> c, other |-> o, arg |-> arg]

None == "none"

\* The caller is between two calls: no call's result is in its hands.
NoOp == Op("none", None, None, None)

Idle == lastOp = NoOp

\* The alternative and the payload of c.
Contents(c) ==
  [has_value_ |-> has_value_[c], value_ |-> value_[c], status_ |-> status_[c]]

\* The operations that may write the object they are called on, and those
\* that may write the object they are handed.
WritesThis ==
  {"CopyAssign", "MoveAssign", "ValueOrDieRef", "ValueOrDieMove", "Dtor"}

WritesOther == {"MoveCtor", "MoveAssign"}

\* The objects are interchangeable, so the copies of one object into one
\* other object are the ones followed.
TrackedSrc == CHOOSE c \in Ids : \A d \in Ids : c <= d

TrackedDst ==
  CHOOSE c \in Ids \ {TrackedSrc} : \A d \in Ids \ {TrackedSrc} : c <= d

\* The copy the caller made last: copied.dst was made a copy of copied.src,
\* which held copied.orig.  It is followed until the caller itself assigns
\* to, moves from, writes through or destroys copied.src.
CopiedAfter(kind, c, o) ==
  IF kind \in {"CopyCtor", "CopyAssign"} /\ c = TrackedDst /\ o = TrackedSrc
    THEN Obj([dst |-> c, src |-> o, orig |-> Contents(o)])
  ELSE IF copied = NoObj THEN copied
  ELSE IF \/ kind \in WritesThis /\ c = Get(copied).src
          \/ kind \in WritesOther /\ o = Get(copied).src
         THEN NoObj
  ELSE copied

\* A move-only T cannot be copied: StatusOr(const T &), the copy constructor
\* and the copy assignment are not instantiated for it.
Copyable == ~moveOnlyT

\* A value of a move-only T exists once: one handed to StatusOr(T &&) is
\* none of those handed in before.  The values being interchangeable, they
\* are handed in in their order.
CanHandIn(v) ==
  moveOnlyT => (v \notin minted /\ \A w \in TVals : w < v => w \in minted)

\* Every operation records itself, its result and the objects it found.
Record(kind, c, o, arg, r) ==
  /\ lastOp' = Op(kind, c, o, arg)
  /\ ret' = r
  /\ prev' = Snapshot
  /\ copied' = CopiedAfter(kind, c, o)
  /\ minted' = IF moveOnlyT /\ kind = "ValueMoveCtor"
                 THEN minted \cup {arg} ELSE minted
  /\ taken' = IF moveOnlyT /\ kind = "ValueOrDieMove" /\ r # NoRet
                THEN taken \cup {Get(r)} ELSE taken
  /\ UNCHANGED moveOnlyT

\* LOG(FATAL) << ...: logs and terminates the process.
LogFatal == aborted' = TRUE

Init ==
  /\ alive = [c \in Ids |-> FALSE]
  /\ has_value_ = [c \in Ids |-> FALSE]
  /\ value_ = [c \in Ids |-> NoObj]
  /\ status_ = [c \in Ids |-> NoObj]
  /\ err = {}
  /\ aborted = FALSE
  /\ lastOp = NoOp
  /\ ret = NoRet
  /\ copied = NoObj
  /\ events = <<>>
  /\ moveOnlyT \in BOOLEAN
  /\ minted = {}
  /\ taken = {}
  /\ prev = Snapshot

(***************************************************************************)
(* Constructors and destructor.                                            *)
(***************************************************************************)
\* A default constructor that stores a default-constructed (OK) Status.
DefaultCtorOk(c) ==
  /\ Idle /\ ~aborted /\ ~alive[c]
  /\ Commit([ConstructStatus(Mem, c, OkStatus) EXCEPT !.has_value_[c] = FALSE])
  /\ alive' = [alive EXCEPT ![c] = TRUE]
  /\ Record("DefaultCtor", c, None, None, NoRet)
  /\ UNCHANGED aborted

\* A default constructor that stores the status Clear() stores.
DefaultCtorInvalid(c) ==
  /\ Idle /\ ~aborted /\ ~alive[c]
  /\ Commit([ConstructStatus(Mem, c, MovedStatus)
               EXCEPT !.has_value_[c] = FALSE])
  /\ alive' = [alive EXCEPT ![c] = TRUE]
  /\ Record("DefaultCtor", c, None, None, NoRet)
  /\ UNCHANGED aborted

\* explicit StatusOr()
DefaultCtor(c) ==
  /\ Idle /\ ~aborted /\ ~alive[c]
  /\ Commit([ConstructStatus(Mem, c, UnknownStatus)
               EXCEPT !.has_value_[c] = FALSE])
  /\ alive' = [alive EXCEPT ![c] = TRUE]
  /\ Record("DefaultCtor", c, None, None, NoRet)
  /\ UNCHANGED aborted

\* The body of ~StatusOr(), run on storage m.  The object's has_value_ ends
\* with the object: the storage is as it was before any object was in it.
DtorBody(m, c) ==
  LET m1 == IF m.has_value_[c] THEN DestroyValue(m, c)
                               ELSE DestroyStatus(m, c)
  IN [m1 EXCEPT !.has_value_[c] = FALSE]

\* ~StatusOr()
Dtor(c) ==
  /\ Idle /\ ~aborted /\ alive[c]
  /\ Commit(DtorBody(Mem, c))
  /\ alive' = [alive EXCEPT ![c] = FALSE]
  /\ Record("Dtor", c, None, None, NoRet)
  /\ UNCHANGED aborted

\* The status constructor without its check of status.ok().
StatusCtorNoCheck(c, s) ==
  /\ Idle /\ ~aborted /\ ~alive[c]
  /\ Commit([ConstructStatus(Mem, c, s) EXCEPT !.has_value_[c] = FALSE])
  /\ alive' = [alive EXCEPT ![c] = TRUE]
  /\ Record("StatusCtor", c, None, s, NoRet)
  /\ UNCHANGED aborted

\* StatusOr(const Status &status)
StatusCtor(c, s) ==
  /\ Idle /\ ~aborted /\ ~alive[c]
  /\ Commit([ConstructStatus(Mem, c, s) EXCEPT !.has_value_[c] = FALSE])
  /\ IF StatusOk(s)
       THEN LogFatal /\ UNCHANGED alive
       ELSE alive' = [alive EXCEPT ![c] = TRUE] /\ UNCHANGED aborted
  /\ Record("StatusCtor", c, None, s, NoRet)

\* StatusOr(const T &value)
ValueCtor(c, v) ==
  /\ Idle /\ ~aborted /\ ~alive[c] /\ Copyable
  /\ Commit([ConstructValue(Mem, c, v) EXCEPT !.has_value_[c] = TRUE])
  /\ alive' = [alive EXCEPT ![c] = TRUE]
  /\ Record("ValueCtor", c, None, v, NoRet)
  /\ UNCHANGED aborted

\* StatusOr(T &&) with the has_value_(false) of the status constructor.
ValueMoveCtorNoFlag(c, v) ==
  /\ Idle /\ ~aborted /\ ~alive[c] /\ CanHandIn(v)
  /\ Commit([ConstructValue(Mem, c, v) EXCEPT !.has_value_[c] = FALSE])
  /\ alive' = [alive EXCEPT ![c] = TRUE]
  /\ Record("ValueMoveCtor", c, None, v, NoRet)
  /\ UNCHANGED aborted

\* StatusOr(T &&value)
ValueMoveCtor(c, v) ==
  /\ Idle /\ ~aborted /\ ~alive[c] /\ CanHandIn(v)
  /\ Commit([ConstructValue(Mem, c, v) EXCEPT !.has_value_[c] = TRUE])
  /\ alive' = [alive EXCEPT ![c] = TRUE]
  /\ Record("ValueMoveCtor", c, None, v, NoRet)
  /\ UNCHANGED aborted

(***************************************************************************)
(* Copy and move.  x is what is read from the member of other that         *)
(* other.has_value_ names; r is the state a move leaves that member in.    *)
(***************************************************************************)
\* The copy constructor ending in the other.Clear() of the move constructor.
CopyCtorClearsSource(m, c, o, x) ==
  LET m0 == [m EXCEPT !.has_value_[c] = m.has_value_[o]]
      m1 == IF m0.has_value_[c]
              THEN ConstructValue(ReadErr(m0, o, m0.value_), c, x)
              ELSE ConstructStatus(ReadErr(m0, o, m0.status_), c, x)
  IN Clear(m1, o)

\* The body of StatusOr(const StatusOr &other), run on storage m.
CopyCtorBody(m, c, o, x) ==
  LET m0 == [m EXCEPT !.has_value_[c] = m.has_value_[o]]
  IN IF m0.has_value_[c]
       THEN ConstructValue(ReadErr(m0, o, m0.value_), c, x)
       ELSE ConstructStatus(ReadErr(m0, o, m0.status_), c, x)

\* StatusOr(const StatusOr &other)
CopyCtor(c, o) ==
  /\ Idle /\ ~aborted /\ ~alive[c] /\ alive[o] /\ Copyable
  /\ \E x \in ReadActive(Mem, o) : Commit(CopyCtorBody(Mem, c, o, x))
  /\ alive' = [alive EXCEPT ![c] = TRUE]
  /\ Record("CopyCtor", c, o, None, NoRet)
  /\ UNCHANGED aborted

\* A copy assignment that takes a destination already holding a failure to
\* need no new one.
CopyAssignSkipsFailure(m, c, o, x) ==
  IF c = o \/ (~m.has_value_[c] /\ ~m.has_value_[o])
    THEN m
    ELSE IF m.has_value_[o]
           THEN AssignValue(ReadErr(m, o, m.value_), c, x)
           ELSE AssignStatus(ReadErr(m, o, m.status_), c, x)

\* A copy assignment that ends, as the move assignment does, in other.Clear().
CopyAssignClearsSource(m, c, o, x) ==
  IF c = o
    THEN m
    ELSE Clear(IF m.has_value_[o]
                 THEN AssignValue(ReadErr(m, o, m.value_), c, x)
                 ELSE AssignStatus(ReadErr(m, o, m.status_), c, x), o)

\* The body of operator=(const StatusOr &other), run on storage m.
CopyAssignBody(m, c, o, x) ==
  IF c = o
    THEN m
    ELSE IF m.has_value_[o]
           THEN AssignValue(ReadErr(m, o, m.value_), c, x)
           ELSE AssignStatus(ReadErr(m, o, m.status_), c, x)

\* StatusOr &operator=(const StatusOr &other)
CopyAssign(c, o) ==
  /\ Idle /\ ~aborted /\ alive[c] /\ alive[o] /\ Copyable
  /\ \E x \in ReadActive(Mem, o) : Commit(CopyAssignBody(Mem, c, o, x))
  /\ Record("CopyAssign", c, o, None, NoRet)
  /\ UNCHANGED <<alive, aborted>>

\* A move constructor without other.Clear().
MoveCtorNoClear(m, c, o, x, r) ==
  LET m0 == [m EXCEPT !.has_value_[c] = m.has_value_[o]]
  IN IF m0.has_value_[c]
       THEN ConstructValue(
              LeaveValue(ReadErr(m0, o, m0.value_), o, r), c, x)
       ELSE ConstructStatus(
              LeaveStatus(ReadErr(m0, o, m0.status_), o, r), c, x)

\* The body of StatusOr(StatusOr &&other), run on storage m.
MoveCtorBody(m, c, o, x, r) ==
  LET m0 == [m EXCEPT !.has_value_[c] = m.has_value_[o]]
      m1 == IF m0.has_value_[c]
              THEN ConstructValue(
                     LeaveValue(ReadErr(m0, o, m0.value_), o, r), c, x)
              ELSE ConstructStatus(
                     LeaveStatus(ReadErr(m0, o, m0.status_), o, r), c, x)
  IN Clear(m1, o)

\* StatusOr(StatusOr &&other)
MoveCtor(c, o) ==
  /\ Idle /\ ~aborted /\ ~alive[c] /\ alive[o]
  /\ \E x \in ReadActive(Mem, o) :
       \E r \in MovedFrom(Mem, o, x) : Commit(MoveCtorBody(Mem, c, o, x, r))
  /\ alive' = [alive EXCEPT ![c] = TRUE]
  /\ Record("MoveCtor", c, o, None, NoRet)
  /\ UNCHANGED aborted

\* A move assignment without other.Clear().
MoveAssignNoClear(m, c, o, x, r) ==
  IF c = o
    THEN m
    ELSE IF m.has_value_[o]
           THEN AssignValue(
                  LeaveValue(ReadErr(m, o, m.value_), o, r), c, x)
           ELSE AssignStatus(
                  LeaveStatus(ReadErr(m, o, m.status_), o, r), c, x)

\* A move assignment without its check for self-assignment.
MoveAssignNoSelfCheck(m, c, o, x, r) ==
  LET m1 == IF m.has_value_[o]
              THEN AssignValue(
                     LeaveValue(ReadErr(m, o, m.value_), o, r), c, x)
              ELSE AssignStatus(
                     LeaveStatus(ReadErr(m, o, m.status_), o, r), c, x)
  IN Clear(m1, o)

\* The body of operator=(StatusOr &&other), run on storage m.
MoveAssignBody(m, c, o, x, r) ==
  IF c = o
    THEN m
    ELSE LET m1 == IF m.has_value_[o]
                     THEN AssignValue(
                            LeaveValue(ReadErr(m, o, m.value_), o, r), c, x)
                     ELSE AssignStatus(
                            LeaveStatus(ReadErr(m, o, m.status_), o, r), c, x)
         IN Clear(m1, o)

\* StatusOr &operator=(StatusOr &&other)
MoveAssign(c, o) ==
  /\ Idle /\ ~aborted /\ alive[c] /\ alive[o]
  /\ \E x \in ReadActive(Mem, o) :
       \E r \in MovedFrom(Mem, o, x) : Commit(MoveAssignBody(Mem, c, o, x, r))
  /\ Record("MoveAssign", c, o, None, NoRet)
  /\ UNCHANGED <<alive, aborted>>

(***************************************************************************)
(* State query and value access.                                           *)
(***************************************************************************)
\* bool ok() const
ok(c) ==
  /\ Idle /\ ~aborted /\ alive[c]
  /\ Record("ok", c, None, None, Obj(Ok(Mem, c)))
  /\ UNCHANGED <<alive, has_value_, value_, status_, err, aborted, events>>

\* status() that returns a status of the stored code without its message.
StatusResultDropsMessage(m, c, s) ==
  IF Ok(m, c) THEN OkStatus ELSE [s EXCEPT !.msg = ""]

\* status() that returns Status::OkStatus() whatever the object holds.
StatusResultAlwaysOk(m, c, s) == OkStatus

\* What status() returns on storage m, given the stored status s it reads.
StatusResult(m, c, s) == IF Ok(m, c) THEN OkStatus ELSE s

\* Status status() const
status(c) ==
  /\ Idle /\ ~aborted /\ alive[c]
  /\ \E s \in IF Ok(Mem, c) THEN {None} ELSE ReadStatus(Mem, c) :
       Record("status", c, None, None, Obj(StatusResult(Mem, c, s)))
  /\ Commit(IF Ok(Mem, c) THEN Mem ELSE ReadErr(Mem, c, status_))
  /\ UNCHANGED <<alive, aborted>>

\* ValueOrDie without its check.
DiesNever(m, c) == FALSE

\* ValueOrDie with its check inverted: if (ok()) LOG(FATAL)
DiesInverted(m, c) == Ok(m, c)

\* The check all three ValueOrDie overloads start with: if (!ok()) LOG(FATAL)
Dies(m, c) == ~Ok(m, c)

\* const T &ValueOrDie() const &
ValueOrDieConst(c) ==
  /\ Idle /\ ~aborted /\ alive[c]
  /\ IF Dies(Mem, c)
       THEN /\ LogFatal
            /\ Record("ValueOrDieConst", c, None, None, NoRet)
            /\ UNCHANGED <<has_value_, value_, status_, err, events>>
       ELSE /\ \E v \in ReadValue(Mem, c) :
                 Record("ValueOrDieConst", c, None, None, Obj(v))
            /\ Commit(ReadErr(Mem, c, value_))
            /\ UNCHANGED aborted
  /\ UNCHANGED alive

\* The caller's write of v through the reference ValueOrDie() & returned.
WriteValue(m, c, v) == [ReadErr(m, c, m.value_) EXCEPT !.value_[c] = Obj(v)]

\* T &ValueOrDie() &, and the caller's assignment through the reference:
\* so.ValueOrDie() = v
ValueOrDieRef(c, v) ==
  /\ Idle /\ ~aborted /\ alive[c]
  /\ Copyable \/ value_[c] \in {NoObj, Obj(v)}
  /\ IF Dies(Mem, c)
       THEN /\ LogFatal
            /\ Record("ValueOrDieRef", c, None, v, NoRet)
            /\ UNCHANGED <<has_value_, value_, status_, err, events>>
       ELSE /\ Record("ValueOrDieRef", c, None, v, Obj(v))
            /\ Commit(WriteValue(Mem, c, v))
            /\ UNCHANGED aborted
  /\ UNCHANGED alive

\* ValueOrDie() && without Clear().
ExtractNoClear(m, c, r) == LeaveValue(ReadErr(m, c, m.value_), c, r)

\* The body of T ValueOrDie() && past its check, run on storage m: r is the
\* state T tmp(std::move(variant_.value_)) leaves value_ in.
ExtractBody(m, c, r) == Clear(LeaveValue(ReadErr(m, c, m.value_), c, r), c)

\* T ValueOrDie() &&
ValueOrDieMove(c) ==
  /\ Idle /\ ~aborted /\ alive[c]
  /\ IF Dies(Mem, c)
       THEN /\ LogFatal
            /\ Record("ValueOrDieMove", c, None, None, NoRet)
            /\ UNCHANGED <<has_value_, value_, status_, err, events>>
       ELSE /\ \E tmp \in ReadValue(Mem, c) :
                 /\ Record("ValueOrDieMove", c, None, None, Obj(tmp))
                 /\ \E r \in MovedFromT(tmp) : Commit(ExtractBody(Mem, c, r))
            /\ UNCHANGED aborted
  /\ UNCHANGED alive

\* The caller is done with what the last call returned: the temporary is
\* gone, and so is the record of the call.
Discard ==
  /\ ~Idle /\ ~aborted
  /\ lastOp' = NoOp
  /\ ret' = NoRet
  /\ prev' = Snapshot
  /\ events' = <<>>
  /\ UNCHANGED <<alive, has_value_, value_, status_, err, aborted, copied,
                 moveOnlyT, minted, taken>>

Next ==
  \/ \E c \in Ids : DefaultCtor(c)
  \/ \E c \in Ids : Dtor(c)
  \/ \E c \in Ids, s \in Statuses : StatusCtor(c, s)
  \/ \E c \in Ids, v \in TVals : ValueCtor(c, v)
  \/ \E c \in Ids, v \in TVals : ValueMoveCtor(c, v)
  \/ \E c, o \in Ids : CopyCtor(c, o)
  \/ \E c, o \in Ids : CopyAssign(c, o)
  \/ \E c, o \in Ids : MoveCtor(c, o)
  \/ \E c, o \in Ids : MoveAssign(c, o)
  \/ \E c \in Ids : ok(c)
  \/ \E c \in Ids : status(c)
  \/ \E c \in Ids : ValueOrDieConst(c)
  \/ \E c \in Ids, v \in TVals : ValueOrDieRef(c, v)
  \/ \E c \in Ids : ValueOrDieMove(c)
  \/ Discard

Spec == Init /\ [][Next]_vars

(***************************************************************************)
(* What the properties below say about an object.                          *)
(***************************************************************************)
\* The union members of c that hold an object.
LiveMembers(c) ==
  (IF value_[c] # NoObj THEN {"value_"} ELSE {})
    \cup (IF status_[c] # NoObj THEN {"status_"} ELSE {})

\* c is not ok and its status() is st.
HoldsFailure(c, st) ==
  /\ ~Ok(Mem, c)
  /\ value_[c] = NoObj
  /\ status_[c] # NoObj
  /\ StatusResult(Mem, c, Get(status_[c])) = st

\* c has the alternative and the payload that d had before the last operation.
SameAsBefore(c, d) ==
  /\ has_value_[c] = prev.has_value_[d]
  /\ value_[c] = prev.value_[d]
  /\ status_[c] = prev.status_[d]

\* c and d have the same alternative and equal payloads.
SameContents(c, d) ==
  /\ has_value_[c] = has_value_[d]
  /\ value_[c] = value_[d]
  /\ status_[c] = status_[d]

ValueOrDieKinds == {"ValueOrDieConst", "ValueOrDieRef", "ValueOrDieMove"}

\* The last operation moved lastOp.other into the distinct lastOp.this.
MovedLast ==
  /\ lastOp.kind \in {"MoveCtor", "MoveAssign"}
  /\ lastOp.this # lastOp.other

\* The last operation copied lastOp.other into the distinct lastOp.this.
CopiedLast ==
  /\ lastOp.kind \in {"CopyCtor", "CopyAssign"}
  /\ lastOp.this # lastOp.other

(***************************************************************************)
(* C1: in every object whose lifetime is running, exactly one member of    *)
(* variant_ holds an object, and has_value_ is true iff it is value_.      *)
(***************************************************************************)
C1_ExactlyOneAlternative ==
  \A c \in Ids :
    alive[c] =>
      /\ Cardinality(LiveMembers(c)) = 1
      /\ has_value_[c] <=> (LiveMembers(c) = {"value_"})

\* A move assignment has just switched the alternative of its destination.
C1_Witness ==
  /\ lastOp.kind = "MoveAssign"
  /\ lastOp.this # lastOp.other
  /\ prev.has_value_[lastOp.this] # prev.has_value_[lastOp.other]
  /\ alive[lastOp.this] /\ alive[lastOp.other]

(***************************************************************************)
(* C2: after a move construction or a move assignment between distinct     *)
(* objects, the source is not ok with the "The object was moved" INVALID   *)
(* status, and the destination holds what the source held before.          *)
(***************************************************************************)
C2_MovePoisonsSource ==
  MovedLast =>
    /\ HoldsFailure(lastOp.other, MovedStatus)
    /\ SameAsBefore(lastOp.this, lastOp.other)

\* A value was move-assigned over a failure.
C2_Witness ==
  /\ lastOp.kind = "MoveAssign"
  /\ lastOp.this # lastOp.other
  /\ prev.has_value_[lastOp.other]
  /\ ~prev.has_value_[lastOp.this]
  /\ has_value_[lastOp.this]

(***************************************************************************)
(* C3: ValueOrDie() && on an ok object returns the value it held and       *)
(* leaves the object not ok with the moved-from INVALID status.            *)
(***************************************************************************)
C3_ExtractPoisons ==
  (lastOp.kind = "ValueOrDieMove" /\ prev.has_value_[lastOp.this]) =>
    /\ ~aborted
    /\ ret = prev.value_[lastOp.this]
    /\ HoldsFailure(lastOp.this, MovedStatus)

\* A value was extracted.
C3_Witness ==
  /\ lastOp.kind = "ValueOrDieMove"
  /\ prev.has_value_[lastOp.this]
  /\ ret # NoRet

(***************************************************************************)
(* C4: each ValueOrDie overload, called on an object that is not ok,       *)
(* reaches LOG(FATAL) and returns nothing.                                 *)
(***************************************************************************)
C4_ValueOrDieDies ==
  (lastOp.kind \in ValueOrDieKinds /\ ~prev.has_value_[lastOp.this]) =>
    /\ aborted
    /\ ret = NoRet

\* ValueOrDie() & died on a moved-from object.
C4_Witness ==
  /\ lastOp.kind = "ValueOrDieRef"
  /\ prev.status_[lastOp.this] = Obj(MovedStatus)
  /\ aborted

(***************************************************************************)
(* C5: StatusOr(const Status &) with an OK status reaches LOG(FATAL): the  *)
(* object's lifetime never starts and no operation runs afterwards.        *)
(***************************************************************************)
C5_OkStatusCtorDies ==
  /\ (lastOp.kind = "StatusCtor" /\ StatusOk(lastOp.arg)) =>
       (aborted /\ ~alive[lastOp.this])
  /\ aborted => ~ENABLED Next

\* The constructor was called with Status::OkStatus().
C5_Witness ==
  /\ lastOp.kind = "StatusCtor"
  /\ lastOp.arg = OkStatus

(***************************************************************************)
(* C6: while the process runs, an object that has no value stores a        *)
(* Status that is not OK.                                                  *)
(***************************************************************************)
C6_FailureIsNotOk ==
  ~aborted =>
    \A c \in Ids :
      (alive[c] /\ ~has_value_[c]) =>
        (status_[c] # NoObj /\ ~StatusOk(Get(status_[c])))

\* Failures of three origins are held at once: the default constructor's,
\* one constructed from a caller's status, and one left by a move.
C6_Witness ==
  /\ ~aborted
  /\ \E c, d, e \in Ids :
       /\ alive[c] /\ alive[d] /\ alive[e]
       /\ status_[c] = Obj(UnknownStatus)
       /\ status_[d] = Obj(UserStatus)
       /\ status_[e] = Obj(MovedStatus)

(***************************************************************************)
(* C7: LOG(FATAL) is reached only by StatusOr(const Status &) with an OK   *)
(* status and by ValueOrDie on an object that is not ok.                   *)
(***************************************************************************)
C7_AbortOnlyOnViolation ==
  aborted =>
    \/ lastOp.kind = "StatusCtor" /\ StatusOk(lastOp.arg)
    \/ lastOp.kind \in ValueOrDieKinds /\ ~prev.has_value_[lastOp.this]

\* ValueOrDie ran on an ok object and the process goes on.
C7_Witness ==
  /\ lastOp.kind \in ValueOrDieKinds
  /\ prev.has_value_[lastOp.this]
  /\ ~aborted

(***************************************************************************)
(* C8: no member is destroyed when it holds no object, none is constructed *)
(* over a member that still holds one, and an object whose lifetime has    *)
(* ended leaves no member constructed.                                     *)
(***************************************************************************)
C8_DestroyedExactlyOnce ==
  /\ err = {}
  /\ \A c \in Ids : alive[c] => Cardinality(LiveMembers(c)) = 1
  /\ ~aborted => \A c \in Ids : ~alive[c] => LiveMembers(c) = {}

\* An object that an assignment switched to the other alternative was
\* destroyed.
C8_Witness ==
  /\ lastOp.kind = "Dtor"
  /\ LiveMembers(lastOp.this) = {}
  /\ \E c \in Ids \ {lastOp.this} :
       /\ alive[c]
       /\ has_value_[c]
       /\ prev.status_[lastOp.this] = Obj(MovedStatus)

(***************************************************************************)
(* C9: a copy construction or copy assignment between distinct objects     *)
(* gives the destination the alternative and payload of the source and     *)
(* leaves the source as it was.                                            *)
(***************************************************************************)
C9_CopyReplicates ==
  CopiedLast =>
    /\ SameContents(lastOp.this, lastOp.other)
    /\ SameAsBefore(lastOp.other, lastOp.other)

\* A failure was copy-assigned over a value.
C9_Witness ==
  /\ lastOp.kind = "CopyAssign"
  /\ lastOp.this # lastOp.other
  /\ prev.has_value_[lastOp.this]
  /\ ~prev.has_value_[lastOp.other]
  /\ ~has_value_[lastOp.this]

(***************************************************************************)
(* C10: once b has been made a copy of a, a keeps the alternative and the  *)
(* payload it had when it was copied, whatever is done to b (or to any     *)
(* third object), for as long as the caller does not assign to a, move     *)
(* from a, write through a.ValueOrDie() or destroy a.                      *)
(***************************************************************************)
C10_CopyIsIndependent ==
  copied # NoObj =>
    /\ alive[Get(copied).src]
    /\ Contents(Get(copied).src) = Get(copied).orig

\* The value of the copy was moved out of it; the original still has its own.
C10_Witness ==
  /\ copied # NoObj
  /\ \/ lastOp.kind = "ValueOrDieMove" /\ lastOp.this = Get(copied).dst
     \/ lastOp.kind = "MoveCtor" /\ lastOp.other = Get(copied).dst
  /\ prev.has_value_[Get(copied).dst]
  /\ ~has_value_[Get(copied).dst]
  /\ has_value_[Get(copied).src]


(***************************************************************************)
(* C11: a copy assignment or move assignment of an object to itself        *)
(* leaves its alternative and payload as they were, and neither destroys   *)
(* nor constructs nor assigns any member.                                  *)
(***************************************************************************)
SelfAssignedLast ==
  /\ lastOp.kind \in {"CopyAssign", "MoveAssign"}
  /\ lastOp.this = lastOp.other

C11_SelfAssignIsNoOp ==
  SelfAssignedLast =>
    /\ ~aborted
    /\ alive[lastOp.this]
    /\ SameAsBefore(lastOp.this, lastOp.this)
    /\ events = <<>>

\* An ok object was move-assigned to itself.
C11_Witness ==
  /\ lastOp.kind = "MoveAssign"
  /\ lastOp.this = lastOp.other
  /\ prev.has_value_[lastOp.this]
  /\ has_value_[lastOp.this]


(***************************************************************************)
(* C12: with a move-only T, a value given to StatusOr(T &&) is the value   *)
(* of at most one ok object at any time, and of none once                  *)
(* ValueOrDie() && has handed it out.                                      *)
(***************************************************************************)
Holders(v) == {c \in Ids : alive[c] /\ has_value_[c] /\ value_[c] = Obj(v)}

C12_SingleOwner ==
  moveOnlyT =>
    \A v \in TVals :
      /\ Cardinality(Holders(v)) <= 1
      /\ v \in taken => Holders(v) = {}

\* A value was moved from one object to another and then extracted.
C12_Witness ==
  /\ moveOnlyT
  /\ lastOp.kind = "ValueOrDieMove"
  /\ ret # NoRet
  /\ Get(ret) \in taken
  /\ \E c \in Ids \ {lastOp.this} : alive[c] /\ status_[c] = Obj(MovedStatus)


(***************************************************************************)
(* What ok(), status() and ValueOrDie() would return for c in this state.  *)
(***************************************************************************)
OkOf(c) == Ok(Mem, c)

StatusOf(c) == {StatusResult(Mem, c, s) : s \in ReadStatus(Mem, c)}

\* The values ValueOrDie() can return for c; none if it reaches LOG(FATAL).
ValueOf(c) == IF Dies(Mem, c) THEN {} ELSE ReadValue(Mem, c)

\* Every object is as it was before the last operation.
NothingChanged ==
  /\ alive = prev.alive
  /\ \A d \in Ids : SameAsBefore(d, d)
  /\ events = <<>>

(***************************************************************************)
(* C13: an object constructed from a value v, by StatusOr(const T &) or by *)
(* StatusOr(T &&), is ok, its status() is OK and its ValueOrDie() is v.    *)
(***************************************************************************)
C13_ValueRoundTrip ==
  lastOp.kind \in {"ValueCtor", "ValueMoveCtor"} =>
    /\ ~aborted
    /\ alive[lastOp.this]
    /\ OkOf(lastOp.this)
    /\ StatusOf(lastOp.this) = {OkStatus}
    /\ StatusOk(OkStatus)
    /\ ValueOf(lastOp.this) = {lastOp.arg}

\* An object was constructed from the largest value by StatusOr(T &&).
C13_Witness ==
  /\ lastOp.kind = "ValueMoveCtor"
  /\ lastOp.arg = MaxVal
  /\ value_[lastOp.this] = Obj(MaxVal)

(***************************************************************************)
(* C14: an object constructed from a status s that is not OK is not ok and *)
(* its status() is s, code and message included.                           *)
(***************************************************************************)
C14_StatusRoundTrip ==
  (lastOp.kind = "StatusCtor" /\ ~StatusOk(lastOp.arg)) =>
    /\ ~aborted
    /\ alive[lastOp.this]
    /\ ~OkOf(lastOp.this)
    /\ StatusOf(lastOp.this) = {lastOp.arg}

\* An object was constructed from a caller's NOT_FOUND "not found".
C14_Witness ==
  /\ lastOp.kind = "StatusCtor"
  /\ lastOp.arg = UserStatus
  /\ alive[lastOp.this]

(***************************************************************************)
(* C15: status() returns the stored Status of an object that has no value  *)
(* and Status::OkStatus() of one that has, so that status().ok() is ok()   *)
(* in every state; ok() and status() return just that and change nothing.  *)
(***************************************************************************)
C15_StatusMatchesOk ==
  /\ \A c \in Ids :
       alive[c] =>
         LET st == StatusOf(c)
         IN /\ status_[c] # NoObj => st = {Get(status_[c])}
            /\ value_[c] # NoObj => st = {OkStatus}
            /\ \A s \in st : StatusOk(s) <=> OkOf(c)
  /\ lastOp.kind = "ok" =>
       /\ ret = Obj(prev.has_value_[lastOp.this])
       /\ NothingChanged
  /\ lastOp.kind = "status" =>
       /\ ret = Obj(IF prev.has_value_[lastOp.this]
                      THEN OkStatus
                      ELSE Get(prev.status_[lastOp.this]))
       /\ NothingChanged

\* status() was called on an ok object and returned Status::OkStatus().
C15_Witness ==
  /\ lastOp.kind = "status"
  /\ has_value_[lastOp.this]
  /\ ret = Obj(OkStatus)

(***************************************************************************)
(* C16: a default-constructed object is not ok and its status() is the     *)
(* UNKNOWN error, which is neither OK nor the INVALID of a moved object.   *)
(***************************************************************************)
C16_DefaultIsUnknown ==
  lastOp.kind = "DefaultCtor" =>
    /\ ~aborted
    /\ alive[lastOp.this]
    /\ ~OkOf(lastOp.this)
    /\ \A s \in StatusOf(lastOp.this) :
         /\ s.code = "UNKNOWN"
         /\ ~StatusOk(s)
         /\ s # MovedStatus

\* An object was default-constructed.
C16_Witness ==
  /\ lastOp.kind = "DefaultCtor"
  /\ status_[lastOp.this] = Obj(UnknownStatus)


(***************************************************************************)
(* C17: which operations change an object that exists before and after.   *)
(***************************************************************************)
\* c lived through the last operation and is not as it was before it.
Changed(c) == prev.alive[c] /\ alive[c] /\ ~SameAsBefore(c, c)

\* The last operation was an assignment to c or a ValueOrDie() && on c.
AssignedOrExtracted(c) ==
  /\ lastOp.kind \in {"CopyAssign", "MoveAssign", "ValueOrDieMove"}
  /\ lastOp.this = c

\* The caller wrote the T of c through the reference ValueOrDie() & returned.
WrittenByCaller(c) == lastOp.kind = "ValueOrDieRef" /\ lastOp.this = c

\* C17 as the lifecycle description has it: an object is changed only by an
\* assignment to it, by a ValueOrDie() && on it, or as the source of such a
\* transfer, and not by the construction of another object from it.
C17_ConstructionLeavesSource ==
  \A c \in Ids :
    Changed(c) =>
      \/ AssignedOrExtracted(c)
      \/ lastOp.kind = "MoveAssign" /\ lastOp.other = c
      \/ WrittenByCaller(c)

\* C17: an object is changed only by an assignment to it, by a ValueOrDie() &&
\* on it, or as the source of a move assignment or of a move construction,
\* which leaves it holding the moved-from status; copy construction from it,
\* ok(), status() and ValueOrDie() const & leave it as it was.
C17_MutatedOnlyByAssignOrMove ==
  \A c \in Ids :
    Changed(c) =>
      \/ AssignedOrExtracted(c)
      \/ /\ MovedLast
         /\ lastOp.other = c
         /\ HoldsFailure(c, MovedStatus)
      \/ WrittenByCaller(c)

\* An object that had a value was the source of a move construction.
C17_Witness ==
  /\ lastOp.kind = "MoveCtor"
  /\ prev.has_value_[lastOp.other]
  /\ Changed(lastOp.other)

(***************************************************************************)
(* The member operations the last call performed on c, in order.           *)
(***************************************************************************)
EventsOn(c) ==
  LET on == SelectSeq(events, LAMBDA e : e[2] = c)
  IN [i \in 1..Len(on) |-> on[i][1]]

\* The objects the last call ran AssignStatus on, each with the status given.
AssignStatusCalls ==
  (IF /\ lastOp.kind \in {"CopyAssign", "MoveAssign"}
      /\ lastOp.this # lastOp.other
      /\ ~prev.has_value_[lastOp.other]
     THEN {<<lastOp.this, Get(prev.status_[lastOp.other])>>}
     ELSE {})
  \cup (IF MovedLast THEN {<<lastOp.other, MovedStatus>>} ELSE {})
  \cup (IF lastOp.kind = "ValueOrDieMove" /\ prev.has_value_[lastOp.this]
          THEN {<<lastOp.this, MovedStatus>>}
          ELSE {})

(***************************************************************************)
(* C18: AssignStatus on an object that has a value destroys the T, then    *)
(* constructs the Status, and on one that has none assigns to the Status   *)
(* it holds, destroying and constructing nothing; either way the object    *)
(* ends not ok with the new status.                                        *)
(***************************************************************************)
C18_AssignStatusOrder ==
  \A p \in AssignStatusCalls :
    /\ EventsOn(p[1]) = IF prev.has_value_[p[1]]
                          THEN <<"~T", "new Status", "has_value_ =">>
                          ELSE <<"Status =", "has_value_ =">>
    /\ HoldsFailure(p[1], p[2])

\* A failure was move-assigned over a value: AssignStatus ran on the
\* destination, which had a value, and on the source, which had none.
C18_Witness ==
  /\ lastOp.kind = "MoveAssign"
  /\ lastOp.this # lastOp.other
  /\ prev.has_value_[lastOp.this]
  /\ ~prev.has_value_[lastOp.other]
  /\ Cardinality(AssignStatusCalls) = 2

(***************************************************************************)
(* C19: AssignValue destroys the member the object holds, T or Status,     *)
(* then constructs the new T and sets has_value_; it never assigns to a T. *)
(***************************************************************************)
C19_AssignValueOrder ==
  (/\ lastOp.kind \in {"CopyAssign", "MoveAssign"}
   /\ lastOp.this # lastOp.other
   /\ prev.has_value_[lastOp.other]) =>
    /\ EventsOn(lastOp.this) =
         <<IF prev.has_value_[lastOp.this] THEN "~T" ELSE "~Status",
           "new T", "has_value_ =">>
    /\ has_value_[lastOp.this]
    /\ value_[lastOp.this] = prev.value_[lastOp.other]
    /\ status_[lastOp.this] = NoObj

\* A value was copy-assigned over another value.
C19_Witness ==
  /\ lastOp.kind = "CopyAssign"
  /\ lastOp.this # lastOp.other
  /\ prev.has_value_[lastOp.this]
  /\ prev.has_value_[lastOp.other]
  /\ prev.value_[lastOp.this] # prev.value_[lastOp.other]

(***************************************************************************)
(* C20: the source of a move construction, of a move assignment or of a    *)
(* ValueOrDie() && is left not ok, and an object that is not ok becomes ok *)
(* only as the destination of an assignment from an ok object; until then  *)
(* every ValueOrDie() on it reaches LOG(FATAL).                            *)
(***************************************************************************)
C20_UseAfterMoveCaught ==
  /\ MovedLast => ~OkOf(lastOp.other)
  /\ (lastOp.kind = "ValueOrDieMove" /\ ~aborted) => ~OkOf(lastOp.this)
  /\ \A c \in Ids :
       (prev.alive[c] /\ alive[c] /\ ~prev.has_value_[c] /\ has_value_[c]) =>
         /\ lastOp.kind \in {"CopyAssign", "MoveAssign"}
         /\ lastOp.this = c
         /\ prev.has_value_[lastOp.other]
  /\ (lastOp.kind \in ValueOrDieKinds /\ ~prev.has_value_[lastOp.this]) =>
       aborted

\* ValueOrDie() was called on a moved-from object.
C20_Witness ==
  /\ lastOp.kind \in ValueOrDieKinds
  /\ prev.status_[lastOp.this] = Obj(MovedStatus)
  /\ aborted

====
